---- MODULE Spec2Model ----
(***************************************************************************)
(* Model of the langchain embedding handler                                *)
(* (mindsdb/integrations/handlers/langchain_embedding_handler):            *)
(*   - the module-level population of EMBEDDING_MODELS,                    *)
(*   - get_langchain_class and construct_model_from_args,                  *)
(*   - LangchainEmbeddingHandler.create, predict and describe,             *)
(* and of the jira handler (mindsdb/integrations/handlers/jira_handler):   *)
(*   - JiraHandler.__init__, connect and check_connection.                 *)
(* Strings whose characters the code inspects (class names, column names)  *)
(* are sequences of one-character strings, so that str.lower,              *)
(* str.replace and str.strip are computed, not assumed.                    *)
(***************************************************************************)
EXTENDS Integers, Sequences, FiniteSets, TLC

VARIABLES
    EMBEDDING_MODELS,   \* the alias -> class name dict (module global)
    module_all,         \* langchain_community.embeddings.__all__ (input)
    library_installed,  \* whether importing the library succeeds (input)
    import_idx,         \* position of the module-level for loop
    import_state,       \* "importing" | "loaded" | "failed"
    registered,         \* friendly names registered so far (history)
    resolved,           \* outcome of the last alias resolution
    factory,            \* outcomes of construct and of the re-construct after it
    model_storage,      \* the handler's model storage: json key -> value
    pc,                 \* "idle", or the place predict has reached
    frame,              \* the locals of the running predict
    calls,              \* the embed_documents calls of the last predict (history)
    logged,             \* the logger.error records of the last predict (history)
    result,             \* how the last handler call ended
    parked,             \* pc, frame, calls, logged and result of a second
                        \* caller's thread while the first one runs
    connection_data,    \* JiraHandler.connection_data (input)
    connection,         \* JiraHandler.connection: None or a Jira client
    is_connected,       \* JiraHandler.is_connected
    clients_created,    \* how many Jira clients were constructed (history)
    response            \* how the last JiraHandler call ended

regvars == <<EMBEDDING_MODELS, module_all, library_installed, import_idx,
             import_state, registered, resolved, factory>>

hvars == <<model_storage, pc, frame, calls, logged, result, parked>>

jvars == <<connection_data, connection, is_connected, clients_created, response>>

vars == <<regvars, hvars, jvars>>

----------------------------------------------------------------------------
(* Strings *)

UpperChars == <<"A","B","C","D","E","F","G","H","I","J","K","L","M",
                "N","O","P","Q","R","S","T","U","V","W","X","Y","Z">>

LowerChars == <<"a","b","c","d","e","f","g","h","i","j","k","l","m",
                "n","o","p","q","r","s","t","u","v","w","x","y","z">>

\* the lower-case letter of each upper-case letter
LowerOf ==
    [c \in {UpperChars[k] : k \in 1..26} |->
        LowerChars[CHOOSE k \in 1..26 : UpperChars[k] = c]]

\* the upper-case letter of each lower-case letter
UpperOf ==
    [c \in {LowerChars[k] : k \in 1..26} |->
        UpperChars[CHOOSE k \in 1..26 : LowerChars[k] = c]]

\* str.lower on one character
LowerChar(c) == IF c \in DOMAIN LowerOf THEN LowerOf[c] ELSE c

\* str.upper on one character
UpperChar(c) == IF c \in DOMAIN UpperOf THEN UpperOf[c] ELSE c

\* s.lower()
Lower(s) == [k \in 1..Len(s) |-> LowerChar(s[k])]

\* s.upper()
Upper(s) == [k \in 1..Len(s) |-> UpperChar(s[k])]

RECURSIVE Replace(_, _)
\* s.replace(old, ""): every non-overlapping occurrence of old, scanning
\* from the left, is removed
Replace(s, old) ==
    IF Len(s) < Len(old) THEN s
    ELSE IF SubSeq(s, 1, Len(old)) = old
         THEN Replace(SubSeq(s, Len(old) + 1, Len(s)), old)
         ELSE <<s[1]>> \o Replace(Tail(s), old)

sEmbeddings == <<"E","m","b","e","d","d","i","n","g","s">>

\* the keys of the built-in dict, lines 23-26
sVLLM == <<"V","L","L","M">>

sFastAPI == <<"F","a","s","t","A","P","I">>

\* class names
VLLMEmbeddings == sVLLM \o sEmbeddings

FastAPIEmbeddings == sFastAPI \o sEmbeddings

OpenAIEmbeddings == <<"O","p","e","n","A","I">> \o sEmbeddings

\* a second class whose friendly name differs from OpenAI's only in case
OpenaiEmbeddings == <<"O","p","e","n","a","i">> \o sEmbeddings

FakeEmbeddings == <<"F","a","k","e">> \o sEmbeddings

QianfanEmbeddingsEndpoint ==
    <<"Q","i","a","n","f","a","n">> \o sEmbeddings \o <<"E","n","d","p","o","i","n","t">>

TitanTakeoffEmbed == <<"T","i","t","a","n","T","a","k","e","o","f","f","E","m","b","e","d">>

\* an export of the library that is not a subclass of Embeddings
NotAnEmbedding == <<"U","t","i","l","s">>

DEFAULT_EMBEDDING_CLASS == OpenAIEmbeddings

\* a class name no module defines
UnknownClass == <<"N","o","p","e">>

----------------------------------------------------------------------------
(* The external library langchain_community.embeddings *)

\* names the library may export (the code takes whatever __all__ holds):
\* a suffix "Embeddings", an infix, no "Embeddings" at all, two names that
\* differ only in the case of their letters, a name that is no embedding
LibraryExports ==
    {OpenAIEmbeddings, OpenaiEmbeddings, FakeEmbeddings,
     QianfanEmbeddingsEndpoint, TitanTakeoffEmbed, NotAnEmbedding}

\* issubclass(class_, Embeddings), line 35
IsEmbeddingsSubclass(class_name) == class_name # NotAnEmbedding

\* the longest __all__ explored when the import itself is explored
MaxExports == 3

RECURSIVE SeqsNoDup(_, _)
\* the sequences of at most n distinct members of S
SeqsNoDup(S, n) ==
    IF n = 0 THEN {<<>>}
    ELSE {<<>>} \cup
         UNION { { <<x>> \o t : t \in SeqsNoDup(S \ {x}, n - 1) } : x \in S }

Range(f) == {f[k] : k \in DOMAIN f}

----------------------------------------------------------------------------
(* Dicts: functions from keys to values *)

EmptyDict == [k \in {} |-> 0]

\* d[k] = v
DictSet(d, k, v) == [x \in (DOMAIN d) \cup {k} |-> IF x = k THEN v ELSE d[x]]

\* d without the key k (dict.pop's effect on d)
DictDel(d, k) == [x \in (DOMAIN d) \ {k} |-> d[x]]

\* {k: v for k, v in d.items() if k in keys}
DictFilter(d, keys) == [x \in (DOMAIN d) \cap keys |-> d[x]]

----------------------------------------------------------------------------
(* JiraHandler (mindsdb/integrations/handlers/jira_handler/jira_handler.py) *)

\* self.connection before any client exists, line 37
NoConnection == [none |-> TRUE]

\* the most Jira clients one handler constructs
MaxClients == 2

\* __init__, lines 24-41
JiraInit(data) ==
    /\ connection_data = data
    /\ connection = NoConnection
    /\ is_connected = FALSE
    /\ clients_created = 0
    /\ response = [call |-> "none"]

\* no exception
NoError == [kind |-> "none", msg |-> ""]

\* lines 57-80: the arguments for the client, or the ValueError
ConnectConfig(data) ==
    LET is_cloud == IF "cloud" \in DOMAIN data THEN data["cloud"] ELSE TRUE
    IN  IF is_cloud
        THEN IF ~({"username", "api_token", "url"} \subseteq DOMAIN data)
             THEN [ok |-> FALSE,
                   error |-> [kind |-> "ValueError",
                              msg |-> "Required parameters (username, api_token, url) must be provided."]]
             ELSE [ok |-> TRUE,
                   config |-> [k \in {"username", "password", "url"} |->
                                  IF k = "password" THEN data["api_token"] ELSE data[k]]]
        ELSE IF "url" \notin DOMAIN data
             THEN [ok |-> FALSE,
                   error |-> [kind |-> "ValueError",
                              msg |-> "Required parameter 'url' must be provided."]]
             ELSE [ok |-> TRUE,
                   config |-> [k \in {"url", "cloud"}
                                    \cup (IF "personal_access_token" \in DOMAIN data
                                          THEN {"session"} ELSE {}) |->
                                  IF k = "url" THEN data["url"]
                                  ELSE IF k = "cloud" THEN "False"
                                  ELSE data["personal_access_token"]]]

\* a variant of line 54 that never takes the early return
NeverAlreadyConnected(flag) == FALSE

\* line 54: self.is_connected is True
AlreadyConnected(flag) == flag = TRUE

\* connect(), lines 54-88, on a handler whose fields are conn, flag, data
\* and that has built n clients so far; ctor is how Jira(**config) ends if
\* it is called. The record holds the outcome and the fields afterwards.
connect(conn, flag, data, n, ctor) ==
    IF AlreadyConnected(flag)
    THEN [raised |-> FALSE, error |-> NoError, returned |-> conn,
          created |-> FALSE, connection |-> conn, is_connected |-> flag,
          clients |-> n]
    ELSE LET cfg == ConnectConfig(data)
         IN  IF ~cfg.ok
             THEN [raised |-> TRUE, error |-> cfg.error, returned |-> NoConnection,
                   created |-> FALSE, connection |-> conn, is_connected |-> flag,
                   clients |-> n]
             ELSE IF ctor # "ok"
             THEN [raised |-> TRUE,
                   error |-> [kind |-> ctor, msg |-> "the client could not be built"],
                   returned |-> NoConnection,
                   created |-> FALSE, connection |-> conn, is_connected |-> flag,
                   clients |-> n]
             ELSE LET client == [none |-> FALSE, id |-> n + 1, config |-> cfg.config]
                  IN  [raised |-> FALSE, error |-> NoError, returned |-> client,
                       created |-> TRUE, connection |-> client,
                       is_connected |-> TRUE, clients |-> n + 1]

\* how Jira(**config), line 83, can end
CtorOutcomes == {"ok", "Exception"}

\* how connection.myself(), line 101, can end
ProbeOutcomes == {"ok", "HTTPError", "Exception"}

\* a call of connect() by a user of the handler
Connect ==
    \E ctor \in CtorOutcomes :
        LET out == connect(connection, is_connected, connection_data,
                           clients_created, ctor)
        IN  /\ out.clients <= MaxClients
            /\ connection' = out.connection
            /\ is_connected' = out.is_connected
            /\ clients_created' = out.clients
            /\ response' = [call |-> "connect", raised |-> out.raised,
                            error |-> out.error, created |-> out.created,
                            returned |-> out.returned]
            /\ UNCHANGED <<connection_data, regvars, hvars>>

\* line 103: except (HTTPError, ValueError)
CaughtKnown(e) == e.kind \in {"HTTPError", "ValueError"}

\* line 106: except Exception, which every outcome of the model is
CaughtUnknown(e) == e.kind \in {"HTTPError", "ValueError", "Exception"}

\* a variant of line 110 that leaves the flag as connect left it
IsConnectedAfterCheckKeeps(success, flag) == flag

\* line 110: self.is_connected = response.success
IsConnectedAfterCheck(success, flag) == success

\* a call of check_connection(), lines 90-112
CheckConnection ==
    \E ctor \in CtorOutcomes, probe \in ProbeOutcomes :
        LET out == connect(connection, is_connected, connection_data,
                           clients_created, ctor)
            e   == IF out.raised THEN out.error
                   ELSE IF probe # "ok"
                   THEN [kind |-> probe, msg |-> "the probe call failed"]
                   ELSE NoError
            success == e = NoError
            caught  == ~success /\ (CaughtKnown(e) \/ CaughtUnknown(e))
        IN  /\ out.clients <= MaxClients
            /\ connection' = out.connection
            /\ clients_created' = out.clients
            /\ is_connected' =
                  IF success \/ caught
                  THEN IsConnectedAfterCheck(success, out.is_connected)
                  ELSE out.is_connected
            /\ response' =
                  [call |-> "check", raised |-> ~success /\ ~caught,
                   success |-> success,
                   error_message |-> IF caught THEN e.msg ELSE "",
                   connect_raised |-> out.raised,
                   probe |-> IF out.raised THEN "skipped" ELSE probe,
                   created |-> out.created]
            /\ UNCHANGED <<connection_data, regvars, hvars>>

\* the values of the connection parameters
JiraParameters == {"username", "api_token", "url", "personal_access_token"}

\* the connection_data dicts a handler is built with: any of the
\* parameters, and cloud absent, True or False
ConnectionDataInputs ==
    UNION {{[k \in keys |-> "given"],
            [k \in keys \cup {"cloud"} |-> IF k = "cloud" THEN TRUE ELSE "given"],
            [k \in keys \cup {"cloud"} |-> IF k = "cloud" THEN FALSE ELSE "given"]} :
              keys \in SUBSET JiraParameters}

----------------------------------------------------------------------------
(* Population of EMBEDDING_MODELS, lines 22-46 *)

\* the dict literal of lines 22-28
BuiltinModels ==
    DictSet(DictSet(DictSet(DictSet(EmptyDict,
        sVLLM, VLLMEmbeddings),
        Lower(sVLLM), VLLMEmbeddings),
        sFastAPI, FastAPIEmbeddings),
        Lower(sFastAPI), FastAPIEmbeddings)

\* line 39: class_name.replace("Embeddings", "")
UserFriendlyName(class_name) == Replace(class_name, sEmbeddings)

\* a variant of the loop body that registers the lower-case key under the
\* lower-cased class name
RegisterClassLowerValue(models, class_name) ==
    IF ~IsEmbeddingsSubclass(class_name) THEN models
    ELSE DictSet(DictSet(models, UserFriendlyName(class_name), class_name),
                 Lower(UserFriendlyName(class_name)), Lower(class_name))

\* one iteration of the for loop, lines 33-41
RegisterClass(models, class_name) ==
    IF ~IsEmbeddingsSubclass(class_name) THEN models
    ELSE DictSet(DictSet(models, UserFriendlyName(class_name), class_name),
                 Lower(UserFriendlyName(class_name)), class_name)

RECURSIVE PopulateFrom(_, _)
\* the whole loop over exports, from the dict models
PopulateFrom(models, exports) ==
    IF exports = <<>> THEN models
    ELSE PopulateFrom(RegisterClass(models, Head(exports)), Tail(exports))

\* the module is being imported: the for loop has not started
ImportInit ==
    /\ EMBEDDING_MODELS = BuiltinModels
    /\ library_installed \in BOOLEAN
    /\ module_all \in SeqsNoDup(LibraryExports, MaxExports)
    /\ library_installed = FALSE => module_all = <<>>
    /\ import_idx = 1
    /\ import_state = "importing"
    /\ registered = {sVLLM, sFastAPI}
    /\ resolved = [kind |-> "none"]
    /\ factory = [kind |-> "none"]

\* lines 30-31 and 43-46: importing the library fails, the module raises
ImportFails ==
    /\ import_state = "importing"
    /\ ~library_installed
    /\ import_state' = "failed"
    /\ UNCHANGED <<EMBEDDING_MODELS, module_all, library_installed, import_idx,
                   registered, resolved, factory>>

\* lines 33-41: one iteration of the loop over module.__all__
ImportStep ==
    /\ import_state = "importing"
    /\ library_installed
    /\ import_idx <= Len(module_all)
    /\ EMBEDDING_MODELS' = RegisterClass(EMBEDDING_MODELS, module_all[import_idx])
    /\ registered' =
         IF IsEmbeddingsSubclass(module_all[import_idx])
         THEN registered \cup {UserFriendlyName(module_all[import_idx])}
         ELSE registered
    /\ import_idx' = import_idx + 1
    /\ UNCHANGED <<module_all, library_installed, import_state, resolved, factory>>

\* the loop is exhausted: the module is loaded
ImportDone ==
    /\ import_state = "importing"
    /\ library_installed
    /\ import_idx > Len(module_all)
    /\ import_state' = "loaded"
    /\ UNCHANGED <<EMBEDDING_MODELS, module_all, library_installed, import_idx,
                   registered, resolved, factory>>

----------------------------------------------------------------------------
(* get_langchain_class, lines 49-77 *)

\* a variant that knows the handler's own two classes and nothing else
get_langchain_class_custom_only(class_name, installed, exports) ==
    IF class_name \in {VLLMEmbeddings, FastAPIEmbeddings}
    THEN [ok |-> TRUE, origin |-> "custom", name |-> class_name]
    ELSE [ok |-> FALSE, error |-> "Could not find the class", name |-> class_name]

\* the class object returned: the handler's own class or the library's
\* attribute of that name
get_langchain_class(class_name, installed, exports) ==
    IF class_name = VLLMEmbeddings
    THEN [ok |-> TRUE, origin |-> "custom", name |-> VLLMEmbeddings]
    ELSE IF class_name = FastAPIEmbeddings
    THEN [ok |-> TRUE, origin |-> "custom", name |-> FastAPIEmbeddings]
    ELSE IF ~installed
    THEN [ok |-> FALSE, error |-> "langchain is not installed", name |-> class_name]
    ELSE IF class_name \notin Range(exports)
    THEN [ok |-> FALSE, error |-> "Could not find the class", name |-> class_name]
    ELSE [ok |-> TRUE, origin |-> "library", name |-> class_name]

\* a variant of the alias lookup that lower-cases the name before the lookup
MapAliasCaseInsensitive(models, class_name) ==
    IF Lower(class_name) \in DOMAIN models THEN models[Lower(class_name)]
    ELSE class_name

\* lines 86-90: a name that is a key of EMBEDDING_MODELS is replaced by its
\* value, any other name is kept
MapAlias(models, class_name) ==
    IF class_name \in DOMAIN models THEN models[class_name] ELSE class_name

\* lines 85-91: the class name after the alias lookup, and its class
ResolveBackend(models, class_name, installed, exports) ==
    get_langchain_class(MapAlias(models, class_name), installed, exports)

----------------------------------------------------------------------------
(* The backend classes, as far as construct_model_from_args uses them *)

\* issubclass(MODEL_CLASS, BaseModel), line 95: the library's pydantic
\* classes; the handler's own two classes and TitanTakeoffEmbed are not
ClassIsBaseModel(cls) ==
    cls.origin = "library"
    /\ cls.name \in {OpenAIEmbeddings, OpenaiEmbeddings, FakeEmbeddings,
                     QianfanEmbeddingsEndpoint}

\* MODEL_CLASS.model_fields, line 97
ClassModelFields(cls) ==
    IF cls.name \in {OpenAIEmbeddings, OpenaiEmbeddings, QianfanEmbeddingsEndpoint}
    THEN {"api_key"}
    ELSE {}

\* the arguments the constructor cannot do without
ClassRequired(cls) ==
    IF cls.origin = "custom" THEN {"api_base"}
    ELSE IF cls.name = OpenAIEmbeddings THEN {"api_key"}
    ELSE {}

\* the keyword arguments a constructor that is not a pydantic model takes:
\* the handler's own classes take **kwargs, a plain class only its parameters
ClassTakes(cls, key) ==
    \/ cls.origin = "custom"
    \/ cls.name = TitanTakeoffEmbed /\ key \in {"api_key"}

\* whether instances carry a batch_size attribute, line 183
ClassHasBatchSize(cls) == cls.origin = "custom"

\* MODEL_CLASS(**serialized_dict), line 100
NewModel(cls, kwargs) ==
    IF /\ ClassRequired(cls) \subseteq DOMAIN kwargs
       /\ ClassIsBaseModel(cls) \/ \A k \in DOMAIN kwargs : ClassTakes(cls, k)
    THEN [ok |-> TRUE, class |-> cls.name, origin |-> cls.origin, kwargs |-> kwargs]
    ELSE [ok |-> FALSE, error |-> "constructor rejected the arguments"]

----------------------------------------------------------------------------
(* construct_model_from_args, lines 80-104 *)

\* a variant of lines 92-98 that passes every argument on
SerializedDictUnfiltered(cls, args) == args

\* lines 92-98: the arguments passed to the constructor
SerializedDict(cls, args) ==
    IF ClassIsBaseModel(cls) THEN DictFilter(args, ClassModelFields(cls)) ELSE args

\* a variant that puts target back and forgets the class name
ReattachNoClass(args, has_target, target, class_name) ==
    IF has_target THEN DictSet(args, "target", target) ELSE args

\* lines 101-103: target and the resolved class name are put back
Reattach(args, has_target, target, class_name) ==
    DictSet(IF has_target THEN DictSet(args, "target", target) ELSE args,
            "class", class_name)

\* the call: ok, the model or the error, and args as the call leaves the
\* caller's dict (the pops of lines 84-85 act on the caller's dict)
construct_model_from_args(args, models, installed, exports) ==
    LET has_target == "target" \in DOMAIN args
        target     == IF has_target THEN args["target"] ELSE <<>>
        class_arg  == IF "class" \in DOMAIN args THEN args["class"]
                      ELSE DEFAULT_EMBEDDING_CLASS
        popped     == DictDel(DictDel(args, "target"), "class")
        class_name == MapAlias(models, class_arg)
        cls        == get_langchain_class(class_name, installed, exports)
    IN  IF ~cls.ok
        THEN [ok |-> FALSE, error |-> cls.error, class_name |-> class_name,
              args |-> popped]
        ELSE LET model == NewModel(cls, SerializedDict(cls, popped))
             IN  IF ~model.ok
                 THEN [ok |-> FALSE, error |-> model.error,
                       class_name |-> class_name, args |-> popped]
                 ELSE [ok |-> TRUE, model |-> model, class_name |-> class_name,
                       args |-> Reattach(popped, has_target, target, class_name)]

----------------------------------------------------------------------------
(* Dataframes: column names and rows of cells *)

\* the quoting character that may wrap a column name (the backquote)
BACKTICK == "BACKQUOTE"

RECURSIVE LStrip(_)
\* the leading backticks removed
LStrip(s) == IF s # <<>> /\ Head(s) = BACKTICK THEN LStrip(Tail(s)) ELSE s

RECURSIVE RStrip(_)
\* the trailing backticks removed
RStrip(s) ==
    IF s # <<>> /\ s[Len(s)] = BACKTICK THEN RStrip(SubSeq(s, 1, Len(s) - 1)) ELSE s

\* col.strip(BACKTICK), lines 139 and 169
Strip(s) == RStrip(LStrip(s))

\* s.startswith(prefix), line 135
StartsWith(s, prefix) ==
    Len(s) >= Len(prefix) /\ SubSeq(s, 1, Len(prefix)) = prefix

sMindsdbPrefix == <<"_","_","m","i","n","d","s","d","b">>

colA == <<"a">>

colB == <<"b">>

colQuotedA == <<BACKTICK, "a", BACKTICK>>

colT == <<"t">>

colPrivate == sMindsdbPrefix \o <<"_","i","d">>

sEmbeddingsTarget == <<"e","m","b","e","d","d","i","n","g","s">>

\* str(value) for the cell values of the model, the integers 0..9
Digits == <<"0","1","2","3","4","5","6","7","8","9">>

Str(value) == <<Digits[value + 1]>>

\* [col.strip(BACKTICK) for col in columns], lines 138-140 and 169
StripAll(columns) == [k \in 1..Len(columns) |-> Strip(columns[k])]

\* the index of the first column named col
ColumnIndex(columns, col) == CHOOSE k \in 1..Len(columns) : columns[k] = col

----------------------------------------------------------------------------
(* row_to_document, lines 226-239 *)

RECURSIVE JoinLines(_)
\* "\n".join(lines)
JoinLines(lines) ==
    IF lines = <<>> THEN <<>>
    ELSE IF Len(lines) = 1 THEN lines[1]
    ELSE lines[1] \o <<"\n">> \o JoinLines(Tail(lines))

\* the document of a row given as its fields and its values
row_to_document(fields, values) ==
    JoinLines([k \in 1..Len(fields) |-> fields[k] \o <<":", " ">> \o Str(values[k])])

\* batch_df[input_columns] then row_to_document, line 197: the document of
\* row r of a dataframe with these columns
DocumentOf(columns, input_columns, row) ==
    row_to_document(input_columns,
                    [k \in 1..Len(input_columns) |->
                        row[ColumnIndex(columns, input_columns[k])]])

\* the vector a backend returns for a document: a function of the document
Embed(doc) == [embedding_of |-> doc]

----------------------------------------------------------------------------
(* The registry and the factory on their own: the module is imported, then *)
(* a caller resolves a name, or constructs and constructs again            *)

\* the friendly names the registry can hold
AllFriendly == {sVLLM, sFastAPI} \cup {UserFriendlyName(c) : c \in LibraryExports}

\* what a caller may pass as "class": a friendly name in its natural, lower
\* or upper case, a class name, a name nobody defines
ClassArgInputs ==
    UNION {{f, Lower(f), Upper(f)} : f \in AllFriendly}
    \cup LibraryExports \cup {VLLMEmbeddings, FastAPIEmbeddings, UnknownClass}

\* the largest batch_size a configuration sets
MaxBatch == 2

\* constructor arguments a caller may give: none, or the credentials, a
\* key no backend knows and a batch size
CtorArgsInputs ==
    {EmptyDict}
    \cup {[k \in {"api_key", "api_base", "legacy", "batch_size"} |->
             IF k = "batch_size" THEN b ELSE <<"k">>] : b \in 1..MaxBatch}

\* a caller's thread that has called nothing yet
IdleThread ==
    [pc |-> "idle", frame |-> [kind |-> "none"], calls |-> <<>>,
     logged |-> <<>>, result |-> [kind |-> "none"]]

\* the nothing-has-happened state of the handler
HandlerInit ==
    /\ model_storage = EmptyDict
    /\ pc = "idle"
    /\ frame = [kind |-> "none"]
    /\ calls = <<>>
    /\ logged = <<>>
    /\ result = [kind |-> "none"]
    /\ parked = IdleThread

\* lines 85-91 on the caller's class name
Resolve(class_name) ==
    /\ import_state = "loaded"
    /\ resolved.kind = "none" /\ factory.kind = "none"
    /\ resolved' = [kind |-> "resolved", arg |-> class_name,
                    out |-> ResolveBackend(EMBEDDING_MODELS, class_name,
                                           library_installed, module_all)]
    /\ UNCHANGED <<EMBEDDING_MODELS, module_all, library_installed, import_idx,
                   import_state, registered, factory, hvars, jvars>>

\* construct_model_from_args on a caller's configuration
ConstructFirst(args) ==
    /\ import_state = "loaded"
    /\ resolved.kind = "none" /\ factory.kind = "none"
    /\ factory' = [kind |-> "once", args_in |-> args,
                   first |-> construct_model_from_args(args, EMBEDDING_MODELS,
                                                       library_installed, module_all)]
    /\ UNCHANGED <<EMBEDDING_MODELS, module_all, library_installed, import_idx,
                   import_state, registered, resolved, hvars, jvars>>

\* construct_model_from_args on the configuration the first call left
ConstructAgain ==
    /\ factory.kind = "once"
    /\ factory.first.ok
    /\ factory' = [kind |-> "twice", args_in |-> factory.args_in,
                   first |-> factory.first,
                   second |-> construct_model_from_args(factory.first.args,
                                  EMBEDDING_MODELS, library_installed, module_all)]
    /\ UNCHANGED <<EMBEDDING_MODELS, module_all, library_installed, import_idx,
                   import_state, registered, resolved, hvars, jvars>>

\* the configurations handed to construct: a class or none, constructor
\* arguments, a target or none
FactoryConfigs ==
    {a : a \in CtorArgsInputs}
    \cup {DictSet(a, "class", c) : a \in CtorArgsInputs, c \in ClassArgInputs}
    \cup {DictSet(a, "target", colT) : a \in CtorArgsInputs}
    \cup {DictSet(DictSet(a, "class", c), "target", colT) :
             a \in CtorArgsInputs, c \in ClassArgInputs}

RegistryInit == ImportInit /\ HandlerInit /\ JiraInit(EmptyDict)

RegistryNext ==
    \/ ImportFails /\ UNCHANGED <<hvars, jvars>>
    \/ ImportStep /\ UNCHANGED <<hvars, jvars>>
    \/ ImportDone /\ UNCHANGED <<hvars, jvars>>
    \/ \E c \in ClassArgInputs : Resolve(c)
    \/ \E a \in FactoryConfigs : ConstructFirst(a)
    \/ ConstructAgain

SpecRegistry == RegistryInit /\ [][RegistryNext]_vars

----------------------------------------------------------------------------
(* The handler: the module is loaded from the whole library, the storage   *)
(* is empty                                                                *)

\* module.__all__ of the library the handler runs with
FullLibrary ==
    <<OpenAIEmbeddings, OpenaiEmbeddings, FakeEmbeddings,
      QianfanEmbeddingsEndpoint, TitanTakeoffEmbed, NotAnEmbedding>>

Init ==
    /\ module_all = FullLibrary
    /\ library_installed = TRUE
    /\ EMBEDDING_MODELS = PopulateFrom(BuiltinModels, FullLibrary)
    /\ import_idx = Len(FullLibrary) + 1
    /\ import_state = "loaded"
    /\ registered = {sVLLM, sFastAPI}
          \cup {UserFriendlyName(c) : c \in {x \in LibraryExports : IsEmbeddingsSubclass(x)}}
    /\ resolved = [kind |-> "none"]
    /\ factory = [kind |-> "none"]
    /\ HandlerInit
    /\ JiraInit(EmptyDict)

\* model_storage.json_get(key): the value, or None
json_get(storage, key) ==
    IF key \in DOMAIN storage THEN [none |-> FALSE, value |-> storage[key]]
    ELSE [none |-> TRUE]

\* model_storage.json_set(key, value)
json_set(storage, key, value) == DictSet(storage, key, value)

----------------------------------------------------------------------------
(* LangchainEmbeddingHandler.create, lines 118-157 *)

RECURSIVE KeptColumns(_, _)
\* lines 132-136: the columns of the training dataframe that are neither
\* private nor the target
KeptColumns(columns, target) ==
    IF columns = <<>> THEN <<>>
    ELSE (IF ~StartsWith(Head(columns), sMindsdbPrefix) /\ Head(columns) # target
          THEN <<Head(columns)>> ELSE <<>>)
         \o KeptColumns(Tail(columns), target)

\* a variant of the inference that keeps the target column
InferInputColumnsKeepsTarget(columns, target) ==
    StripAll(KeptColumns(columns, <<>>))

\* lines 132-140: the kept columns, unquoted
InferInputColumns(columns, target) == StripAll(KeptColumns(columns, target))

\* lines 129-144: user_args once input_columns is settled
WithInputColumns(user_args, df, target) ==
    IF "input_columns" \notin DOMAIN user_args /\ df.given
    THEN DictSet(user_args, "input_columns", InferInputColumns(df.columns, target))
    ELSE IF "input_columns" \notin DOMAIN user_args
    THEN DictSet(user_args, "input_columns", <<>>)
    ELSE user_args

\* line 153: target or "embeddings" (no target is the empty name)
TargetOrDefault(target) == IF target = <<>> THEN sEmbeddingsTarget ELSE target

\* a variant of create's saved dict: the arguments as the user gave them
\* (before construct rewrote "class"), with input_columns and target
SavedArgsAsGiven(given_args, constructed_args, target) ==
    DictSet(given_args, "target", TargetOrDefault(target))

\* lines 153-156: the dict create saves: user_args as construct left it,
\* with the target
SavedArgs(given_args, constructed_args, target) ==
    DictSet(constructed_args, "target", TargetOrDefault(target))

\* a variant of create that saves whether or not construct succeeded
StorageAfterCreateAlways(storage, constructed, saved) ==
    json_set(storage, "args", saved)

\* lines 150-157: construct raises before json_set is reached
StorageAfterCreate(storage, constructed, saved) ==
    IF constructed.ok THEN json_set(storage, "args", saved) ELSE storage

\* the whole call create(target, df, args) with args["using"] = using.
\* A model is created at training time, before it predicts: create runs on
\* an empty storage, or right after a create that succeeded
Create(target, df, using) ==
    /\ pc = "idle"
    /\ \/ "args" \notin DOMAIN model_storage
       \/ result.kind = "create" /\ result.ok
    /\ LET user_args   == WithInputColumns(using, df, target)
           constructed == construct_model_from_args(user_args, EMBEDDING_MODELS,
                                                    library_installed, module_all)
           saved       == SavedArgs(user_args, constructed.args, target)
       IN  /\ model_storage' = StorageAfterCreate(model_storage, constructed, saved)
           /\ result' =
                IF constructed.ok
                THEN [kind |-> "create", ok |-> TRUE, target |-> target,
                      df |-> df, using |-> using, using_after |-> saved]
                ELSE [kind |-> "create", ok |-> FALSE, target |-> target,
                      df |-> df, using |-> using,
                      using_after |-> constructed.args, stage |-> "construct",
                      error |-> [msg |-> constructed.error]]
    /\ frame' = [kind |-> "none"]
    /\ calls' = <<>>
    /\ logged' = <<>>
    /\ UNCHANGED <<pc, regvars, parked, jvars>>

\* the training dataframe create may be given: a quoted column, a plain
\* one, the target column and a private column
TrainingFrame ==
    [given |-> TRUE, columns |-> <<colQuotedA, colB, colT, colPrivate>>]

\* the (target, df) pairs create is given: neither, a target alone, both
CreateCalls ==
    {<< <<>>, [given |-> FALSE] >>, <<colT, [given |-> FALSE]>>, <<colT, TrainingFrame>>}

\* the "class" values of the handler runs: an alias of a handler class, a
\* lower-case alias of a library class, its class name, a plain class that rejects
\* input_columns, a name nobody defines
HandlerClassInputs ==
    {sVLLM, Lower(UserFriendlyName(FakeEmbeddings)), FakeEmbeddings,
     TitanTakeoffEmbed, UnknownClass}

\* the input_columns lists a user gives: one column, two in an order of
\* their own, the empty list
InputColumnsInputs == {<<colA>>, <<colB, colA>>, <<>>}

\* the "using" dicts create is given
UsingInputs ==
    LET with_class ==
            CtorArgsInputs
            \cup {DictSet(a, "class", c) : a \in CtorArgsInputs, c \in HandlerClassInputs}
    IN  with_class
        \cup {DictSet(a, "input_columns", ic) : a \in with_class, ic \in InputColumnsInputs}

----------------------------------------------------------------------------
(* LangchainEmbeddingHandler.predict, lines 159-224 *)

\* the most rows of a prediction dataframe
MaxRows == 4

\* the batch size when the model has no batch_size attribute, line 183
DEFAULT_BATCH_SIZE == 32

\* the batch_size default of the handler's own embedding classes
CLASS_BATCH_SIZE == 32

Min(a, b) == IF a <= b THEN a ELSE b

\* the column layouts of the prediction dataframes: with a quoted name,
\* without the column a, with a column named like the target
PredictLayouts ==
    {<<colQuotedA, colB>>, <<colB>>, <<colA, colB, colT>>}

\* the prediction dataframes: n rows, the cell of row g (from 0) in column k
\* holding g + k
PredictFrames ==
    {[columns |-> layout,
      rows |-> [g \in 1..n |-> [k \in 1..Len(layout) |-> g - 1 + k]]] :
        layout \in PredictLayouts, n \in 0..MaxRows}

\* a variant of line 183 that ignores the model's batch_size
BatchSizeDefaultOnly(model) == DEFAULT_BATCH_SIZE

\* getattr(model, 'batch_size', 32), line 183
BatchSizeOf(model) ==
    IF ClassHasBatchSize(model)
    THEN (IF "batch_size" \in DOMAIN model.kwargs THEN model.kwargs["batch_size"]
          ELSE CLASS_BATCH_SIZE)
    ELSE DEFAULT_BATCH_SIZE

\* a variant of line 173 that always takes every column
EffectiveInputColumnsAlwaysAll(user_args, columns) == columns

\* line 173: the stored list, or every column of the dataframe when the
\* stored list is empty or missing
EffectiveInputColumns(user_args, columns) ==
    IF "input_columns" \in DOMAIN user_args /\ user_args["input_columns"] # <<>>
    THEN user_args["input_columns"]
    ELSE columns

\* a variant of the check of line 177 that passes as soon as one input
\* column is found
SomeColumnPresent(input_columns, cols_dfs) ==
    \E k \in 1..Len(input_columns) : input_columns[k] \in Range(cols_dfs)

\* line 177: all([col in cols_dfs for col in input_columns])
AllColumnsPresent(input_columns, cols_dfs) ==
    \A k \in 1..Len(input_columns) : input_columns[k] \in Range(cols_dfs)

\* a variant of predict that saves the columns it was given as the stored
\* input_columns
StorageAfterPredictSavesColumns(storage, df) ==
    IF "args" \in DOMAIN storage
    THEN json_set(storage, "args",
                  DictSet(storage["args"], "input_columns", StripAll(df.columns)))
    ELSE storage

\* lines 159-224: predict has no json_set, the storage is only read
StorageAfterPredict(storage, df) == storage

\* lines 159-189: the configuration is loaded, the model constructed, the
\* columns unquoted and checked, the loop variables set
PredictBegin(df) ==
    /\ pc = "idle"
    /\ calls' = <<>>
    /\ logged' = <<>>
    /\ LET stored == json_get(model_storage, "args")
       IN  IF stored.none
           THEN /\ result' = [kind |-> "predict", ok |-> FALSE, stage |-> "load",
                              error |-> [msg |-> "NoneType has no attribute pop"]]
                /\ frame' = [kind |-> "rejected", df |-> df]
                /\ pc' = "idle"
           ELSE LET constructed ==
                        construct_model_from_args(stored.value, EMBEDDING_MODELS,
                                                  library_installed, module_all)
                    cols_dfs == StripAll(df.columns)
                    input_columns ==
                        EffectiveInputColumns(constructed.args, cols_dfs)
                IN  IF ~constructed.ok
                    THEN /\ result' = [kind |-> "predict", ok |-> FALSE,
                                       stage |-> "construct",
                                       error |-> [msg |-> constructed.error]]
                         /\ frame' = [kind |-> "rejected", df |-> df]
                         /\ pc' = "idle"
                    ELSE IF ~AllColumnsPresent(input_columns, cols_dfs)
                    THEN /\ result' = [kind |-> "predict", ok |-> FALSE,
                                       stage |-> "columns",
                                       error |-> [msg |-> "Input columns not found in the input dataframe",
                                                  input_columns |-> input_columns,
                                                  available |-> cols_dfs]]
                         /\ frame' = [kind |-> "rejected", df |-> df]
                         /\ pc' = "idle"
                    ELSE /\ result' = [kind |-> "none"]
                         /\ frame' = [kind |-> "predict", df |-> df,
                                      columns |-> cols_dfs, rows |-> df.rows,
                                      target |-> constructed.args["target"],
                                      input_columns |-> input_columns,
                                      model |-> constructed.model,
                                      batch_size |-> BatchSizeOf(constructed.model),
                                      total_rows |-> Len(df.rows),
                                      start_idx |-> 0, i |-> 0,
                                      batch_embeddings |-> <<>>,
                                      all_embeddings |-> <<>>]
                         /\ pc' = "loop"
    /\ model_storage' = StorageAfterPredict(model_storage, df)
    /\ UNCHANGED <<regvars, parked, jvars>>

\* a variant of line 192 that lets every batch run to the last row
EndIdxWholeInput(f) == f.total_rows

\* line 192
EndIdx(f) == Min(f.start_idx + f.batch_size, f.total_rows)

\* line 197: the documents of the rows start_idx .. end_idx - 1
BatchTexts(f) ==
    [k \in 1..(EndIdx(f) - f.start_idx) |->
        DocumentOf(f.columns, f.input_columns, f.rows[f.start_idx + k])]

\* a variant of the loop's stride that skips the row after each batch
NextStartSkipsOne(f) == f.start_idx + f.batch_size + 1

\* line 191: range(0, total_rows, batch_size), the next start index
NextStart(f) == f.start_idx + f.batch_size

\* what embed_documents returns when it does not raise: a vector per text
embed_documents(texts) == [k \in 1..Len(texts) |-> Embed(texts[k])]

\* the error a failing backend call raises: told apart by the call's number
BackendError(n) == [backend_error |-> n]

\* lines 199-203: the batch call returns
BatchOk ==
    /\ pc = "loop"
    /\ frame.start_idx < frame.total_rows
    /\ calls' = Append(calls, [kind |-> "batch", ok |-> TRUE,
                               start |-> frame.start_idx, end |-> EndIdx(frame),
                               texts |-> BatchTexts(frame)])
    /\ frame' = [frame EXCEPT
                    !.all_embeddings = @ \o embed_documents(BatchTexts(frame)),
                    !.start_idx = NextStart(frame)]
    /\ UNCHANGED <<pc, logged, result, model_storage, regvars, parked, jvars>>

\* lines 204-207: the batch call raises, the fallback starts
BatchFail ==
    /\ pc = "loop"
    /\ frame.start_idx < frame.total_rows
    /\ calls' = Append(calls, [kind |-> "batch", ok |-> FALSE,
                               start |-> frame.start_idx, end |-> EndIdx(frame),
                               texts |-> BatchTexts(frame),
                               error |-> BackendError(Len(calls) + 1)])
    /\ frame' = [frame EXCEPT !.batch_embeddings = <<>>, !.i = 0]
    /\ pc' = "fallback"
    /\ UNCHANGED <<logged, result, model_storage, regvars, parked, jvars>>

\* a variant of line 218 that forgets the vectors of the fallback
ExtendAfterFallbackDrops(all_embeddings, batch_embeddings) == all_embeddings

\* line 218: all_embeddings.extend(batch_embeddings)
ExtendAfterFallback(all_embeddings, batch_embeddings) ==
    all_embeddings \o batch_embeddings

\* lines 208-212 and 218: the call for document i of the batch returns; after
\* the last document of the batch its vectors are appended and the loop goes on
SingleOk ==
    /\ pc = "fallback"
    /\ frame.i < Len(BatchTexts(frame))
    /\ LET text == BatchTexts(frame)[frame.i + 1]
           got  == Append(frame.batch_embeddings, embed_documents(<<text>>)[1])
       IN  /\ calls' = Append(calls, [kind |-> "single", ok |-> TRUE,
                                      index |-> frame.start_idx + frame.i,
                                      texts |-> <<text>>])
           /\ IF frame.i + 1 < Len(BatchTexts(frame))
              THEN /\ frame' = [frame EXCEPT !.batch_embeddings = got, !.i = @ + 1]
                   /\ pc' = "fallback"
              ELSE /\ frame' = [frame EXCEPT
                                  !.batch_embeddings = got,
                                  !.i = @ + 1,
                                  !.all_embeddings =
                                      ExtendAfterFallback(frame.all_embeddings, got),
                                  !.start_idx = NextStart(frame)]
                   /\ pc' = "loop"
    /\ UNCHANGED <<logged, result, model_storage, regvars, parked, jvars>>

\* a variant of line 215 that logs the position inside the batch
LoggedIndexInBatch(f) == Len(f.batch_embeddings)

\* line 215: the index the error log names
LoggedIndex(f) == f.start_idx + Len(f.batch_embeddings)

\* a variant of line 217 that hands back what was embedded so far
DocumentFailureReturnsPartial(f, inner_e) ==
    [kind |-> "predict", ok |-> TRUE,
     all_embeddings |-> f.all_embeddings \o f.batch_embeddings]

\* line 217: the exception predict raises, with str(inner_e) in its message
DocumentFailure(f, inner_e) ==
    [kind |-> "predict", ok |-> FALSE, stage |-> "embedding",
     error |-> [msg |-> "Failed to generate embedding for document",
                original |-> inner_e]]

\* a variant in which the loop of line 191 goes on after the failure
PcAfterDocumentFailureGoesOn == "loop"

\* line 217: the raise leaves predict
PcAfterDocumentFailure == "idle"

\* lines 213-217: the call for document i of the batch raises; predict logs
\* the index and raises
SingleFail ==
    /\ pc = "fallback"
    /\ frame.i < Len(BatchTexts(frame))
    /\ LET inner_e == BackendError(Len(calls) + 1)
       IN  /\ calls' = Append(calls, [kind |-> "single", ok |-> FALSE,
                                      index |-> frame.start_idx + frame.i,
                                      texts |-> <<BatchTexts(frame)[frame.i + 1]>>,
                                      error |-> inner_e])
           /\ logged' = Append(logged, [level |-> "error",
                                        msg |-> "Error embedding document at index",
                                        index |-> LoggedIndex(frame),
                                        original |-> inner_e])
           /\ result' = DocumentFailure(frame, inner_e)
    /\ pc' = PcAfterDocumentFailure
    /\ UNCHANGED <<frame, model_storage, regvars, parked, jvars>>

\* a variant of line 223 that appends the column whatever the dataframe holds
AssignAppends(columns, rows, target, values) ==
    [columns |-> Append(columns, target),
     rows |-> [g \in 1..Len(rows) |-> Append(rows[g], values[g])]]

\* line 223: df.copy().assign(**{target: all_embeddings}): the column is
\* appended, or replaces the column of that name
Assign(columns, rows, target, values) ==
    IF target \in Range(columns)
    THEN [columns |-> columns,
          rows |-> [g \in 1..Len(rows) |->
                      [k \in 1..Len(columns) |->
                          IF columns[k] = target THEN values[g] ELSE rows[g][k]]]]
    ELSE [columns |-> Append(columns, target),
          rows |-> [g \in 1..Len(rows) |-> Append(rows[g], values[g])]]

\* line 223: assign raises unless there is one value per row
AssignFits(rows, values) == Len(values) = Len(rows)

\* lines 220-224: the loop is exhausted, the dataframe is returned
PredictReturn ==
    /\ pc = "loop"
    /\ frame.start_idx >= frame.total_rows
    /\ result' = IF AssignFits(frame.rows, frame.all_embeddings)
                  THEN [kind |-> "predict", ok |-> TRUE,
                        all_embeddings |-> frame.all_embeddings,
                        value |-> Assign(frame.columns, frame.rows,
                                         frame.target, frame.all_embeddings)]
                  ELSE [kind |-> "predict", ok |-> FALSE, stage |-> "assign",
                        error |-> [msg |-> "Length of values does not match length of index"]]
    /\ pc' = "idle"
    /\ UNCHANGED <<frame, calls, logged, model_storage, regvars, parked, jvars>>

----------------------------------------------------------------------------
(* LangchainEmbeddingHandler.describe, lines 248-263 *)

\* args.items(), line 252: the key/value pairs of a dict
Items(d) == {[key |-> k, value |-> d[k]] : k \in DOMAIN d}

\* the attributes describe is asked for: the two views and anything else
DescribeAttributes == {"args", "metadata", "tables"}

\* the whole call describe(attribute), made between the other calls
Describe(attribute) ==
    /\ pc = "idle"
    /\ LET args == json_get(model_storage, "args")
       IN  result' =
             IF attribute = "args"
             THEN (IF args.none
                   THEN [kind |-> "describe", attribute |-> attribute, ok |-> FALSE,
                         error |-> [msg |-> "NoneType has no attribute items"]]
                   ELSE [kind |-> "describe", attribute |-> attribute, ok |-> TRUE,
                         columns |-> <<"key", "value">>,
                         rows |-> Items(args.value)])
             ELSE IF attribute = "metadata"
             THEN [kind |-> "describe", attribute |-> attribute, ok |-> TRUE,
                   columns |-> <<"key", "value">>,
                   rows |-> {[key |-> "model_class",
                              value |-> json_get(model_storage, "model_class")]}]
             ELSE [kind |-> "describe", attribute |-> attribute, ok |-> TRUE,
                   columns |-> <<"tables">>,
                   rows |-> {"args", "metadata"}]
    /\ frame' = [kind |-> "none"]
    /\ calls' = <<>>
    /\ logged' = <<>>
    /\ UNCHANGED <<pc, model_storage, regvars, parked, jvars>>

Next ==
    \/ \E call \in CreateCalls, using \in UsingInputs :
          Create(call[1], call[2], using)
    \/ \E attribute \in DescribeAttributes : Describe(attribute)
    \/ \E df \in PredictFrames : PredictBegin(df)
    \/ BatchOk
    \/ BatchFail
    \/ SingleOk
    \/ SingleFail
    \/ PredictReturn

Spec == Init /\ [][Next]_vars

----------------------------------------------------------------------------
(* Two callers predict on one stored configuration: their threads run      *)
(* predict in any interleaving of its steps                                *)

\* the most rows of a dataframe when two predictions interleave
MaxConcurrentRows == 2

\* the storage after create(target, df, args) on an empty storage
CreatedStorage(target, df, using) ==
    LET user_args   == WithInputColumns(using, df, target)
        constructed == construct_model_from_args(user_args, EMBEDDING_MODELS,
                                                 library_installed, module_all)
    IN  StorageAfterCreate(EmptyDict, constructed,
                           SavedArgs(user_args, constructed.args, target))

\* the "using" dicts of the shared model: a handler class with a batch size
\* of one, input_columns inferred or given
ConcurrentUsing ==
    LET base == [k \in {"class", "api_base", "batch_size"} |->
                    IF k = "class" THEN sVLLM
                    ELSE IF k = "batch_size" THEN 1 ELSE <<"k">>]
    IN  {base, DictSet(base, "input_columns", <<colA>>)}

\* the dataframes the two callers predict on
ConcurrentFrames == {df \in PredictFrames : Len(df.rows) <= MaxConcurrentRows}

\* the module is loaded, a create with a target has succeeded, nobody
\* predicts yet
ConcurrentInit ==
    /\ module_all = FullLibrary
    /\ library_installed = TRUE
    /\ EMBEDDING_MODELS = PopulateFrom(BuiltinModels, FullLibrary)
    /\ import_idx = Len(FullLibrary) + 1
    /\ import_state = "loaded"
    /\ registered = {sVLLM, sFastAPI}
          \cup {UserFriendlyName(c) : c \in {x \in LibraryExports : IsEmbeddingsSubclass(x)}}
    /\ resolved = [kind |-> "none"]
    /\ factory = [kind |-> "none"]
    /\ pc = "idle"
    /\ frame = [kind |-> "none"]
    /\ calls = <<>>
    /\ logged = <<>>
    /\ result = [kind |-> "none"]
    /\ parked = IdleThread
    /\ JiraInit(EmptyDict)
    /\ \E call \in {c \in CreateCalls : c[1] = colT}, using \in ConcurrentUsing :
          /\ model_storage = CreatedStorage(call[1], call[2], using)
          /\ "args" \in DOMAIN model_storage

\* the scheduler takes the running thread off and puts the other one on
Switch ==
    /\ parked' = [pc |-> pc, frame |-> frame, calls |-> calls,
                  logged |-> logged, result |-> result]
    /\ pc' = parked.pc
    /\ frame' = parked.frame
    /\ calls' = parked.calls
    /\ logged' = parked.logged
    /\ result' = parked.result
    /\ UNCHANGED <<model_storage, regvars, jvars>>

ConcurrentNext ==
    \/ \E df \in ConcurrentFrames : PredictBegin(df)
    \/ BatchOk
    \/ BatchFail
    \/ SingleOk
    \/ SingleFail
    \/ PredictReturn
    \/ Switch

SpecConcurrent == ConcurrentInit /\ [][ConcurrentNext]_vars

\* the backend answers every call (it returns or it raises) and predict
\* runs on: lines 201 and 210 return, the loop of line 191 goes on
SpecLive ==
    /\ Spec
    /\ WF_vars(BatchOk \/ BatchFail)
    /\ WF_vars(SingleOk \/ SingleFail)
    /\ WF_vars(PredictReturn)

----------------------------------------------------------------------------
(* A JiraHandler on its own: built with some connection data, then any     *)
(* sequence of connect and check_connection calls                          *)

\* the embedding module is loaded and idle; a JiraHandler is built
JiraSpecInit ==
    /\ module_all = FullLibrary
    /\ library_installed = TRUE
    /\ EMBEDDING_MODELS = PopulateFrom(BuiltinModels, FullLibrary)
    /\ import_idx = Len(FullLibrary) + 1
    /\ import_state = "loaded"
    /\ registered = {sVLLM, sFastAPI}
          \cup {UserFriendlyName(c) : c \in {x \in LibraryExports : IsEmbeddingsSubclass(x)}}
    /\ resolved = [kind |-> "none"]
    /\ factory = [kind |-> "none"]
    /\ HandlerInit
    /\ \E data \in ConnectionDataInputs : JiraInit(data)

JiraNext ==
    \/ Connect
    \/ CheckConnection

SpecJira == JiraSpecInit /\ [][JiraNext]_vars

----------------------------------------------------------------------------
(* Claims on the registry and the factory (checked under SpecRegistry) *)

\* the backend identifiers get_langchain_class can find
AvailableIdentifiers ==
    {VLLMEmbeddings, FastAPIEmbeddings}
    \cup (IF library_installed THEN Range(module_all) ELSE {})

\* the registered forms of a friendly name: its natural case, its lower case
RegisteredForms(f) == {f, Lower(f)}

\* C8: when construct succeeds and is called again on the configuration it
\* left, the second call succeeds with the same backend identifier and the
\* same class object, and the "class" entry is the same after both calls.
C8_ReconstructSameBackend ==
    factory.kind = "twice" =>
        /\ factory.second.ok
        /\ factory.second.class_name = factory.first.class_name
        /\ factory.second.model.class = factory.first.model.class
        /\ factory.second.model.origin = factory.first.model.origin
        /\ "class" \in DOMAIN factory.first.args
        /\ "class" \in DOMAIN factory.second.args
        /\ factory.second.args["class"] = factory.first.args["class"]

\* a configuration naming a lower-case alias was constructed twice
C8_Witness ==
    /\ factory.kind = "twice"
    /\ "class" \in DOMAIN factory.args_in
    /\ factory.args_in["class"] # factory.first.class_name
    /\ factory.args_in["class"] = Lower(UserFriendlyName(factory.first.class_name))
    /\ factory.first.model.origin = "library"

\* whether the natural-case and the lower-case form of f resolve to the
\* same backend identifier and class
ResolveAlike(f) ==
    LET natural == ResolveBackend(EMBEDDING_MODELS, f,
                                  library_installed, module_all)
        lower   == ResolveBackend(EMBEDDING_MODELS, Lower(f),
                                  library_installed, module_all)
    IN  /\ natural.ok /\ lower.ok
        /\ natural.name = lower.name
        /\ natural.origin = lower.origin

C10_AnyCasingResolves ==
    resolved.kind = "resolved" =>
        LET same == {f \in registered : Lower(f) = Lower(resolved.arg)}
        IN  /\ \A f \in same :
                  /\ resolved.out.ok
                  /\ resolved.out.name =
                       ResolveBackend(EMBEDDING_MODELS, f,
                                      library_installed, module_all).name
            /\ ~resolved.out.ok => same = {}

\* C10 amended: the lookup is an exact match. A name that is a registered
\* form (natural case or lower case) of a friendly name resolves to the
\* backend of that friendly name; any other string, other casings included,
\* resolves only if it is itself an available backend identifier, and then
\* to itself.
C10_ExactMatchResolution ==
    resolved.kind = "resolved" =>
        LET a    == resolved.arg
            out  == resolved.out
            hits == {f \in registered : a \in RegisteredForms(f)}
        IN  /\ hits # {} =>
                  /\ out.ok
                  /\ UserFriendlyName(out.name) \in hits
            /\ hits = {} =>
                  /\ out.ok <=> a \in AvailableIdentifiers
                  /\ out.ok => out.name = a

\* an upper-case spelling of a discovered friendly name was refused
C10_Witness ==
    /\ resolved.kind = "resolved"
    /\ ~resolved.out.ok
    /\ \E f \in registered \ {sVLLM, sFastAPI} :
          /\ resolved.arg = Upper(f)
          /\ resolved.arg \notin RegisteredForms(f)

----------------------------------------------------------------------------
(* Claims on the handler (checked under Spec) *)

\* a predict call has ended (it returned or it raised)
PredictEnded == pc = "idle" /\ result.kind = "predict"

\* the last embed_documents call was for one document and raised
LastSingleFailed ==
    /\ calls # <<>>
    /\ calls[Len(calls)].kind = "single"
    /\ ~calls[Len(calls)].ok

\* the vectors of the rows of the running predict's dataframe, row by row
ExpectedVectors ==
    [g \in 1..Len(frame.df.rows) |->
        Embed(DocumentOf(StripAll(frame.df.columns), frame.input_columns,
                         frame.df.rows[g]))]

\* C1: when predict has ended after its checks passed and no backend call
\* failed, it succeeded with exactly one vector per input row, the vector
\* at position i being the embedding of the document of row i.
C1_AllVectorsInOrder ==
    (/\ PredictEnded
     /\ frame.kind = "predict"
     /\ \A k \in 1..Len(calls) : calls[k].ok)
    => /\ result.ok
       /\ Len(result.all_embeddings) = Len(frame.df.rows)
       /\ \A g \in 1..Len(frame.df.rows) :
              result.all_embeddings[g] =
                  Embed(DocumentOf(StripAll(frame.df.columns),
                                   frame.input_columns, frame.df.rows[g]))

\* three rows went through two batch calls, the second one partial
C1_Witness ==
    /\ PredictEnded /\ frame.kind = "predict" /\ result.ok
    /\ \A k \in 1..Len(calls) : calls[k].ok
    /\ frame.batch_size = 2 /\ frame.total_rows = 3 /\ Len(calls) = 2

\* C2: when predict has ended and some batch calls failed but every
\* single-document call succeeded, predict succeeded and returned what the
\* run without failures returns: the vector of every row, in row order.
C2_BatchFailureInvisible ==
    (/\ PredictEnded
     /\ frame.kind = "predict"
     /\ \E k \in 1..Len(calls) : calls[k].kind = "batch" /\ ~calls[k].ok
     /\ \A k \in 1..Len(calls) : calls[k].kind = "single" => calls[k].ok)
    => /\ result.ok
       /\ result.all_embeddings = ExpectedVectors
       /\ result.value = Assign(StripAll(frame.df.columns), frame.df.rows,
                                frame.target, ExpectedVectors)

\* of three rows, one batch succeeded and one was recovered document by
\* document
C2_Witness ==
    /\ PredictEnded /\ frame.kind = "predict" /\ result.ok
    /\ frame.total_rows = 3
    /\ \E k \in 1..Len(calls) : calls[k].kind = "batch" /\ ~calls[k].ok
    /\ \E k \in 1..Len(calls) : calls[k].kind = "batch" /\ calls[k].ok
    /\ \E k \in 1..Len(calls) : calls[k].kind = "single" /\ calls[k].index > 0

\* C3: when a single-document call has failed, predict has ended in an
\* error and its outcome carries no vectors and no dataframe.
C3_NoPartialOutput ==
    LastSingleFailed =>
        /\ pc = "idle"
        /\ result.kind = "predict"
        /\ ~result.ok
        /\ "value" \notin DOMAIN result
        /\ "all_embeddings" \notin DOMAIN result

\* the failure came after an earlier batch and an earlier document of the
\* same batch had been embedded
C3_Witness ==
    /\ LastSingleFailed
    /\ frame.all_embeddings # <<>>
    /\ frame.batch_embeddings # <<>>

\* C4 as stated: the error predict raises names the global row index of the
\* failing document and carries the backend's error.
C4_RaisedErrorNamesIndex ==
    LastSingleFailed =>
        /\ ~result.ok
        /\ "index" \in DOMAIN result.error
        /\ result.error.index = calls[Len(calls)].index
        /\ result.error.original = calls[Len(calls)].error

\* C4 amended: when a single-document call fails, predict logs an error
\* naming the global row index of the failing document (batch start plus
\* offset in the batch) and raises an error that carries the error of that
\* very call; the raised error does not name the index.
C4_IndexLoggedErrorWrapped ==
    LastSingleFailed =>
        /\ ~result.ok
        /\ result.error.original = calls[Len(calls)].error
        /\ "index" \notin DOMAIN result.error
        /\ Len(logged) = 1
        /\ logged[1].index = calls[Len(calls)].index
        /\ logged[1].original = calls[Len(calls)].error

\* the failing document was neither in the first batch nor first in its batch
C4_Witness ==
    /\ LastSingleFailed
    /\ frame.start_idx > 0
    /\ frame.i > 0
    /\ logged[1].index = frame.start_idx + frame.i

\* C5: when the stored input_columns holds a name that is not among the
\* unquoted columns of the dataframe given to predict, predict has raised
\* the columns error, whose message lists that name, and no embed_documents
\* call was made.
C5_MissingColumnRejectedFirst ==
    (frame.kind \in {"rejected", "predict"} /\ "args" \in DOMAIN model_storage) =>
        LET stored  == model_storage["args"]["input_columns"]
            cols    == StripAll(frame.df.columns)
            missing == Range(stored) \ Range(cols)
        IN  missing # {} =>
                /\ pc = "idle"
                /\ result.kind = "predict"
                /\ ~result.ok
                /\ result.stage = "columns"
                /\ missing \subseteq Range(result.error.input_columns)
                /\ calls = <<>>

\* a stored list with one column present and one absent was rejected
C5_Witness ==
    /\ frame.kind = "rejected"
    /\ "args" \in DOMAIN model_storage
    /\ result.kind = "predict" /\ ~result.ok /\ result.stage = "columns"
    /\ model_storage["args"]["input_columns"] = <<colB, colA>>
    /\ colA \notin Range(StripAll(frame.df.columns))
    /\ colB \in Range(StripAll(frame.df.columns))

\* C6: a step that ends a create in an error leaves the model storage as
\* it was.
C6_FailedCreateLeavesStorage ==
    [][(result'.kind = "create" /\ ~result'.ok) => model_storage' = model_storage]_vars

\* a create failed in the constructor while the storage held a configuration
C6_Witness ==
    /\ result.kind = "create" /\ ~result.ok
    /\ result.error.msg = "constructor rejected the arguments"
    /\ "args" \in DOMAIN model_storage

\* C7: after a successful create the stored "class" is an available backend
\* identifier that resolves to itself: the default when no class was given,
\* the given name when it is an identifier, and otherwise the class whose
\* friendly name the given alias is a registered form of.
C7_StoredClassIsResolved ==
    (result.kind = "create" /\ result.ok) =>
        /\ "args" \in DOMAIN model_storage
        /\ "class" \in DOMAIN model_storage["args"]
        /\ LET stored == model_storage["args"]["class"]
               has    == "class" \in DOMAIN result.using
               given  == IF has THEN result.using["class"] ELSE <<>>
               again  == ResolveBackend(EMBEDDING_MODELS, stored,
                                        library_installed, module_all)
           IN  /\ stored \in AvailableIdentifiers
               /\ again.ok /\ again.name = stored
               /\ ~has => stored = DEFAULT_EMBEDDING_CLASS
               /\ (has /\ given \in AvailableIdentifiers) => stored = given
               /\ (has /\ given \notin AvailableIdentifiers) =>
                     /\ stored # given
                     /\ \E f \in registered :
                           /\ given \in RegisteredForms(f)
                           /\ UserFriendlyName(stored) = f

\* a create with a lower-case alias succeeded
C7_Witness ==
    /\ result.kind = "create" /\ result.ok
    /\ "class" \in DOMAIN result.using
    /\ result.using["class"] = Lower(UserFriendlyName(FakeEmbeddings))
    /\ model_storage["args"]["class"] = FakeEmbeddings

\* the stored input_columns list
StoredInputColumns == model_storage["args"]["input_columns"]

\* C11: whenever predict runs on a stored configuration whose input_columns
\* is empty and on a dataframe with the columns a, b and the target column,
\* the columns the documents are built from are a, b.
C11_EmptyConfigExcludesTarget ==
    (/\ frame.kind = "predict"
     /\ StoredInputColumns = <<>>
     /\ frame.columns = <<colA, colB, colT>>
     /\ frame.target = colT)
    => frame.input_columns = <<colA, colB>>

\* C11 amended: a create that is given no input_columns entry and a
\* training dataframe with a quoted column a, a column b, the target column
\* and a private column stores the list a, b; and a predict on a stored
\* empty list builds its documents from every column of its dataframe, a
\* column named like the target included.
C11_InferredAtCreateElseAllColumns ==
    /\ (/\ result.kind = "create" /\ result.ok
        /\ "input_columns" \notin DOMAIN result.using
        /\ result.df.given
        /\ result.df.columns = <<colQuotedA, colB, colT, colPrivate>>
        /\ result.target = colT)
       => StoredInputColumns = <<colA, colB>>
    /\ (frame.kind = "predict" /\ StoredInputColumns = <<>>)
       => frame.input_columns = frame.columns

\* a create without input_columns inferred them from the training dataframe
C11_Witness ==
    /\ result.kind = "create" /\ result.ok
    /\ "input_columns" \notin DOMAIN result.using
    /\ result.df.given
    /\ result.target = colT
    /\ colT \in Range(result.df.columns)
    /\ StoredInputColumns = <<colA, colB>>

\* C12: a successful predict returns the columns of its dataframe (names
\* unquoted) with their values, followed by one more column, named by the
\* stored target, that holds the vector of row i in row i.
C12_ExactlyOneNewColumn ==
    (PredictEnded /\ result.ok) =>
        LET cols == StripAll(frame.df.columns)
            out  == result.value
        IN  /\ Len(out.columns) = Len(cols) + 1
            /\ out.columns = Append(cols, model_storage["args"]["target"])
            /\ Len(out.rows) = Len(frame.df.rows)
            /\ \A g \in 1..Len(out.rows) :
                  out.rows[g] = Append(frame.df.rows[g], ExpectedVectors[g])

\* C12 amended: a successful predict returns one row per input row; when no
\* unquoted column of the dataframe has the stored target's name, the
\* columns and their values are followed by one new column, the target,
\* holding the vector of row i in row i; when a column has that name, the
\* columns are the same in number and that column's values are the vectors,
\* every other column keeping its values.
C12_TargetAppendedOrReplaced ==
    (PredictEnded /\ result.ok) =>
        LET cols   == StripAll(frame.df.columns)
            target == model_storage["args"]["target"]
            out    == result.value
        IN  /\ Len(out.rows) = Len(frame.df.rows)
            /\ IF target \notin Range(cols)
               THEN /\ out.columns = Append(cols, target)
                    /\ \A g \in 1..Len(out.rows) :
                          out.rows[g] = Append(frame.df.rows[g], ExpectedVectors[g])
               ELSE /\ out.columns = cols
                    /\ \A g \in 1..Len(out.rows) :
                          /\ Len(out.rows[g]) = Len(cols)
                          /\ \A k \in 1..Len(cols) :
                                IF cols[k] = target
                                THEN out.rows[g][k] = ExpectedVectors[g]
                                ELSE out.rows[g][k] = frame.df.rows[g][k]

\* a predict on a dataframe that has a column named like the target returned
C12_Witness ==
    /\ PredictEnded /\ result.ok
    /\ model_storage["args"]["target"] \in Range(StripAll(frame.df.columns))
    /\ Len(frame.df.rows) >= 2
    /\ Len(result.value.columns) = Len(frame.df.columns)

\* C13: when construct_model_from_args has failed (the class was not
\* found, or its constructor rejected the arguments), the caller's
\* configuration still holds the "target" and "class" entries it had.
C13_FailedConstructKeepsTargetAndClass ==
    (factory.kind = "once" /\ ~factory.first.ok) =>
        \A k \in {"target", "class"} :
            k \in DOMAIN factory.args_in =>
                /\ k \in DOMAIN factory.first.args
                /\ factory.first.args[k] = factory.args_in[k]

\* C14: once a create has succeeded, describe("metadata") returns a row
\* model_class whose value is the stored resolved class name, and
\* describe("args") returns exactly the key/value pairs of the stored
\* configuration.
C14_DescribeNamesStoredClass ==
    (result.kind = "describe" /\ "args" \in DOMAIN model_storage) =>
        /\ result.ok
        /\ result.attribute = "args" =>
              result.rows = Items(model_storage["args"])
        /\ result.attribute = "metadata" =>
              \E row \in result.rows :
                  /\ row.key = "model_class"
                  /\ ~row.value.none
                  /\ row.value.value = model_storage["args"]["class"]

\* a call is a batch-level call
IsBatchCall(c) == c.kind = "batch"

\* the batch-level calls of the running predict, in the order they were made
BatchCalls == SelectSeq(calls, IsBatchCall)

\* C15: in a predict, B is the batch_size the model carries, or 32 when it
\* carries none; the j-th batch-level call (from 0) is given the documents
\* of the rows j*B .. min((j+1)*B, N) - 1 in row order; a batch-level call
\* other than the first follows a successful batch-level call or the
\* successful single-document call of the last row of the previous batch;
\* no row is in two batches, and after a successful predict every row is in
\* one.
C15_ContiguousBatchesInOrder ==
    frame.kind = "predict" =>
        LET B  == frame.batch_size
            N  == frame.total_rows
            bc == BatchCalls
            in_batch(g) == {j \in 1..Len(bc) : bc[j].start <= g /\ g < bc[j].end}
        IN  /\ B = IF frame.model.origin = "custom"
                       /\ "batch_size" \in DOMAIN frame.model.kwargs
                   THEN frame.model.kwargs["batch_size"]
                   ELSE 32
            /\ \A j \in 1..Len(bc) :
                  /\ bc[j].start = (j - 1) * B
                  /\ bc[j].end = Min(j * B, N)
                  /\ bc[j].start < bc[j].end
                  /\ bc[j].texts =
                        [k \in 1..(bc[j].end - bc[j].start) |->
                            DocumentOf(frame.columns, frame.input_columns,
                                       frame.rows[bc[j].start + k])]
            /\ \A k \in 2..Len(calls) :
                  calls[k].kind = "batch" =>
                      /\ calls[k - 1].ok
                      /\ calls[k - 1].kind = "batch"
                         \/ calls[k - 1].index = calls[k].start - 1
            /\ \A g \in 0..(N - 1) : Cardinality(in_batch(g)) <= 1
            /\ (PredictEnded /\ result.ok) =>
                  \A g \in 0..(N - 1) : Cardinality(in_batch(g)) = 1

\* four rows went through two batches of two, the first of them recovered
\* document by document before the second was started
C15_Witness ==
    /\ PredictEnded /\ frame.kind = "predict" /\ result.ok
    /\ frame.batch_size = 2 /\ frame.total_rows = 4
    /\ Len(BatchCalls) = 2
    /\ ~BatchCalls[1].ok /\ BatchCalls[2].ok

\* the calls of the running predict that were given the document of row g
\* (from 0) inside a batch
BatchCallsWithRow(g) ==
    {k \in 1..Len(calls) :
        calls[k].kind = "batch" /\ calls[k].start <= g /\ g < calls[k].end}

\* the single-document calls of the running predict for row g (from 0)
SingleCallsForRow(g) ==
    {k \in 1..Len(calls) : calls[k].kind = "single" /\ calls[k].index = g}

\* C16: in a predict over N rows with batch size B, every row's document is
\* given to the backend at most once inside a batch and at most once alone;
\* a single-document call is for a row of an earlier batch-level call that
\* failed; there are at most ceil(N/B) + N backend calls; and when the
\* backend answers every call, a predict that has started ends.
C16_OneLevelNoRetryTerminates ==
    /\ [](frame.kind = "predict" =>
            LET N == frame.total_rows
                B == frame.batch_size
            IN  /\ \A g \in 0..(N - 1) :
                      /\ Cardinality(BatchCallsWithRow(g)) <= 1
                      /\ Cardinality(SingleCallsForRow(g)) <= 1
                /\ \A k \in 1..Len(calls) :
                      calls[k].kind = "single" =>
                          \E m \in BatchCallsWithRow(calls[k].index) :
                              m < k /\ ~calls[m].ok
                /\ Len(calls) <= ((N + B - 1) \div B) + N)
    /\ (pc # "idle") ~> (pc = "idle")

\* every batch of a predict over four rows failed and every row was then
\* embedded alone: the bound on the number of calls is met
C16_Witness ==
    /\ PredictEnded /\ frame.kind = "predict" /\ result.ok
    /\ frame.total_rows = 4 /\ frame.batch_size = 2
    /\ Len(calls) = 6
    /\ \A g \in 0..3 : Cardinality(SingleCallsForRow(g)) = 1

\* the positions in calls of the single-document calls that raised
FailedSingleCalls ==
    {k \in 1..Len(calls) : calls[k].kind = "single" /\ ~calls[k].ok}

\* C17: once a single-document call of a predict has raised, that call is
\* the last backend call of the predict and its only failed
\* single-document call, one error was logged, predict has ended in an
\* error, and no step adds a backend call to that predict.
C17_NoCallAfterDocumentFailure ==
    [][FailedSingleCalls # {} =>
          /\ FailedSingleCalls = {Len(calls)}
          /\ Len(logged) = 1
          /\ PredictEnded /\ ~result.ok
          /\ calls' = calls \/ calls' = <<>>]_vars

\* the first document of the first batch failed alone while a second
\* document of that batch and a later batch were still to come
C17_Witness ==
    /\ FailedSingleCalls # {}
    /\ PredictEnded
    /\ frame.batch_size = 2 /\ frame.total_rows = 4
    /\ frame.start_idx = 0 /\ frame.i = 0
    /\ Len(calls) = 2

\* what a predict on dataframe df gives when it runs alone on the stored
\* configuration and every document is embedded
AloneValue(df) ==
    LET cols  == StripAll(df.columns)
        args  == model_storage["args"]
        icols == IF args["input_columns"] # <<>> THEN args["input_columns"] ELSE cols
    IN  Assign(cols, df.rows, args["target"],
               [g \in 1..Len(df.rows) |-> Embed(DocumentOf(cols, icols, df.rows[g]))])

\* C18: while two callers' predicts interleave, no step changes the model
\* storage or the alias dict; a predict that succeeds returns what it
\* returns when run alone on the stored configuration, and one that fails
\* fails on its own dataframe's missing column or on its own
\* single-document call.
C18_PredictionsIndependent ==
    /\ [][/\ model_storage' = model_storage
          /\ EMBEDDING_MODELS' = EMBEDDING_MODELS]_vars
    /\ [](PredictEnded =>
            /\ result.ok => result.value = AloneValue(frame.df)
            /\ ~result.ok =>
                  \/ /\ result.stage = "columns"
                     /\ calls = <<>>
                     /\ ~(Range(StoredInputColumns)
                            \subseteq Range(StripAll(frame.df.columns)))
                  \/ /\ result.stage = "embedding"
                     /\ LastSingleFailed)

\* a predict over two rows has returned while the other caller's predict,
\* on another dataframe, was between two backend calls
C18_Witness ==
    /\ PredictEnded /\ result.ok
    /\ Len(frame.df.rows) = 2
    /\ parked.pc = "fallback"
    /\ parked.calls # <<>>
    /\ parked.frame.df # frame.df

\* the document of row g (from 0) of the running predict's dataframe built
\* from the columns icols, in that order
DocumentFrom(icols, g) ==
    LET cols == StripAll(frame.df.columns)
        row  == frame.df.rows[g + 1]
    IN  row_to_document(icols,
            [k \in 1..Len(icols) |-> row[ColumnIndex(cols, icols[k])]])

\* C19: in a predict, the input columns are the stored input_columns list
\* when it is not empty and otherwise the unquoted columns of the dataframe
\* in their order, and every document given to the backend is built from
\* exactly those columns of its row, in that order.
C19_EffectiveInputColumns ==
    frame.kind = "predict" =>
        LET icols == IF StoredInputColumns # <<>> THEN StoredInputColumns
                     ELSE StripAll(frame.df.columns)
        IN  /\ frame.input_columns = icols
            /\ \A k \in 1..Len(calls) :
                  IF calls[k].kind = "batch"
                  THEN calls[k].texts =
                         [d \in 1..(calls[k].end - calls[k].start) |->
                             DocumentFrom(icols, calls[k].start + d - 1)]
                  ELSE calls[k].texts = <<DocumentFrom(icols, calls[k].index)>>

\* documents were built from a stored list that orders the columns its own
\* way, on a dataframe whose first column name is quoted
C19_Witness ==
    /\ frame.kind = "predict"
    /\ StoredInputColumns = <<colB, colA>>
    /\ frame.df.columns = <<colQuotedA, colB>>
    /\ calls # <<>>
    /\ calls[1].texts[1] = <<"b", ":", " ", "2", "\n", "a", ":", " ", "1">>

\* the "class" a configuration handed to construct names, the default when
\* it names none
ClassGiven(args) ==
    IF "class" \in DOMAIN args THEN args["class"] ELSE DEFAULT_EMBEDDING_CLASS

\* C20: when construct_model_from_args is given a class that is not a key
\* of the alias dict, the name is looked up as it is: if it is an available
\* backend identifier the call goes on with that very class (it does not
\* end in the class-not-found error), and otherwise it ends in that error;
\* and the call ends in the class-not-found error only for a name that is
\* neither a key of the alias dict nor an available backend identifier.
C20_LiteralIdentifierFallThrough ==
    factory.kind = "once" =>
        LET a         == ClassGiven(factory.args_in)
            first     == factory.first
            not_found == ~first.ok /\ first.error = "Could not find the class"
        IN  /\ a \notin DOMAIN EMBEDDING_MODELS =>
                  /\ first.class_name = a
                  /\ a \in AvailableIdentifiers => ~not_found
                  /\ a \notin AvailableIdentifiers => not_found
            /\ not_found =>
                  /\ a \notin DOMAIN EMBEDDING_MODELS
                  /\ a \notin AvailableIdentifiers

\* construct was given the class name of a library class, which is no key
\* of the alias dict, and built that class
C20_Witness ==
    /\ factory.kind = "once"
    /\ factory.first.ok
    /\ "class" \in DOMAIN factory.args_in
    /\ factory.args_in["class"] = FakeEmbeddings
    /\ FakeEmbeddings \notin DOMAIN EMBEDDING_MODELS
    /\ factory.first.model.class = FakeEmbeddings

\* a configuration without its "target" and "class" entries
WithoutTargetAndClass(args) == DictDel(DictDel(args, "target"), "class")

\* C21: when the resolved class is a pydantic model with the fields F, the
\* model predict constructs from the stored configuration is given exactly
\* the stored entries, other than "target" and "class", whose keys are in
\* F; a create succeeds or fails as it does on the configuration without
\* the keys outside F; and after a successful create every entry of the
\* configuration, in F or not, is in the storage.
C21_OnlyDeclaredFieldsPassed ==
    /\ (frame.kind = "predict"
        /\ ClassIsBaseModel([name |-> frame.model.class,
                             origin |-> frame.model.origin])) =>
          frame.model.kwargs =
              DictFilter(WithoutTargetAndClass(model_storage["args"]),
                         ClassModelFields([name |-> frame.model.class,
                                           origin |-> frame.model.origin]))
    /\ result.kind = "create" =>
          LET cls == ResolveBackend(EMBEDDING_MODELS, ClassGiven(result.using),
                                    library_installed, module_all)
              user_args == WithInputColumns(result.using, result.df, result.target)
          IN  (cls.ok /\ ClassIsBaseModel(cls)) =>
                  /\ result.ok =
                        construct_model_from_args(
                            DictFilter(user_args, ClassModelFields(cls) \cup {"class"}),
                            EMBEDDING_MODELS, library_installed, module_all).ok
                  /\ result.ok =>
                        \A k \in DOMAIN user_args \ {"target", "class"} :
                            /\ k \in DOMAIN model_storage["args"]
                            /\ model_storage["args"][k] = user_args[k]

\* predict built the default class, a pydantic model, from a stored
\* configuration that holds keys the class does not declare
C21_Witness ==
    /\ frame.kind = "predict"
    /\ frame.model.class = OpenAIEmbeddings
    /\ DOMAIN frame.model.kwargs = {"api_key"}
    /\ {"legacy", "batch_size", "api_base"} \subseteq DOMAIN model_storage["args"]

----------------------------------------------------------------------------
(* Claims on the JiraHandler (checked under SpecJira) *)

\* C22: in every state of a JiraHandler, is_connected means a connection
\* object exists; a connect made while is_connected holds returns that
\* connection, builds no client and changes nothing; a connect that raises
\* leaves is_connected and connection as they were.
C22_ConnectedMeansConnection ==
    /\ [](is_connected => ~connection.none)
    /\ [][response'.call = "connect" =>
            /\ is_connected =>
                  /\ ~response'.raised
                  /\ ~response'.created
                  /\ response'.returned = connection
                  /\ connection' = connection
                  /\ clients_created' = clients_created
                  /\ is_connected'
            /\ response'.raised =>
                  /\ is_connected' = is_connected
                  /\ connection' = connection]_vars

\* a connect on a connected handler handed back the one client ever built
C22_Witness ==
    /\ response.call = "connect"
    /\ ~response.raised /\ ~response.created
    /\ is_connected
    /\ response.returned = connection
    /\ clients_created = 1

\* C23: a check_connection never raises; it returns success exactly when
\* connect did not raise and the probe call succeeded, and otherwise a
\* response with success False and the error's message; afterwards
\* is_connected is the returned success flag; and the first connect that
\* returns after a failed check has built a new client.
C23_CheckNeverRaises ==
    /\ [](response.call = "check" =>
            /\ ~response.raised
            /\ response.success <=>
                  (~response.connect_raised /\ response.probe = "ok")
            /\ ~response.success => response.error_message # ""
            /\ is_connected = response.success)
    /\ [][(/\ response.call = "check" /\ ~response.success
           /\ response'.call = "connect" /\ ~response'.raised) =>
              /\ response'.created
              /\ clients_created' = clients_created + 1]_vars

\* the probe of an existing client failed with an HTTPError: the check
\* returned a failure and the handler counts as disconnected
C23_Witness ==
    /\ response.call = "check"
    /\ ~response.success
    /\ response.probe = "HTTPError"
    /\ ~response.created
    /\ ~connection.none
    /\ ~is_connected

====
